---- MODULE Spec2Model ----
(***************************************************************************)
(* Model of the image service in src/server/server.py and                  *)
(* src/server/tools.py, with the store-reset script src/dbCreator.py.      *)
(*                                                                         *)
(* Time is the wall clock in milliseconds.  One request slot models one    *)
(* call of the handler get(); its steps are the handler's suspension       *)
(* points (the awaited cache read, the awaited record selection, the       *)
(* render on the worker pool, the awaited cache write, and each awaited    *)
(* send of the response).  The rendered bytes of a buffer are kept         *)
(* symbolically: byte i of a buffer is named by its offset i, and a body   *)
(* chunk is the offset range the read returned.  The memoizer of tools.py  *)
(* (used for favicon()), the cache key and the response class are also     *)
(* modelled on their own, each under a specification of its own.           *)
(***************************************************************************)
EXTENDS Integers, Sequences, FiniteSets, TLC

\* ------------------------------------------------------------ bounds
NumReq == 2
MaxTicks == 3
MaxUploads == 1
MaxSrcDim == 4
MaxTargetDim == 4
MaxKeyDim == 1
MaxChunks == 2

\* --------------------------------------------------- program constants
CACHE_TIME_IN_SEC == 60 * 60
MaxDim == 4096 * 2
chunk_size == 4096

TtlMs == CACHE_TIME_IN_SEC * 1000

Modes == {"auto", "match_height", "match_width", "stretch"}
Procs == 1..NumReq

\* The request slots of the state: one more than the requests of Procs, for
\* the specification that needs a third request.
Slots == 1..(NumReq + 1)

Min(a, b) == IF a < b THEN a ELSE b
Max(a, b) == IF a > b THEN a ELSE b
Abs(a) == IF a < 0 THEN -a ELSE a

VARIABLES
    now,        \* wall clock, ms
    ticks,      \* clock advances so far
    dbTable,    \* db.db holds the IMAGES table
    records,    \* rows of IMAGES
    files,      \* names present under files/
    nextId,     \* uploads accepted so far (names the next stored file)
    dbc,        \* position of the dbCreator.py script
    cache,      \* the aiocache store of server.py: key -> entry or NoEntry
    bufs,       \* the BytesIO objects the renders created
    pc, inp, loc, resp, sent, disconnected,  \* per request slot
    dimIn, dimOut,  \* the size resolver applied on its own
    zstore,     \* the store of the memoizer of tools.py: key -> times stored
    zret,       \* what the last call of the memoized favicon() returned
    rsp,        \* per slot: the method and background given to the response
    keyIn, keyOut   \* the cache key built on its own

vars == <<now, ticks, dbTable, records, files, nextId, dbc, cache, bufs,
          pc, inp, loc, resp, sent, disconnected, dimIn, dimOut,
          zstore, zret, rsp, keyIn, keyOut>>

dbVars == <<dbTable, records, files, nextId, dbc>>
reqVars == <<pc, inp, loc, resp, sent, disconnected>>
dimVars == <<dimIn, dimOut>>
zVars == <<zstore, zret>>
keyVars == <<keyIn, keyOut>>
restVars == <<zVars, rsp, keyVars>>
\* ------------------------------------------------- the size resolver
\* floor(a / float(b)) for integers 0 <= a, 0 < b.  Both operands are exact
\* as floats (far below 2^53), the quotient is correctly rounded, and a
\* non-integer a/b is at least 1/b away from an integer, so the floor of the
\* float quotient is the integer quotient.
FloorDiv(a, b) == a \div b

\* server.py:102-107
match_width(sw, sh, tw, th) == <<tw, FloorDiv(tw * sh, sw)>>

\* server.py:109-114.  The second component reads the enclosing _target_h,
\* which is the value passed as __target_h when the lambda is called.
match_height(sw, sh, tw, th) == <<FloorDiv(th * sw, sh), th>>

\* server.py:116-121
stretch(sw, sh, tw, th) == <<tw, th>>

\* auto with the tie sw = sh sent to match_width
autoTieToWidth(sw, sh, tw, th) ==
    IF sw >= sh THEN match_width(sw, sh, tw, th)
                ELSE match_height(sw, sh, tw, th)

\* server.py:123-129
auto(sw, sh, tw, th) ==
    IF sw > sh THEN match_width(sw, sh, tw, th)
               ELSE match_height(sw, sh, tw, th)

\* server.py:131-138, the dispatch table and its use
ResolveSize(mode, sw, sh, tw, th) ==
    CASE mode = "match_width"  -> match_width(sw, sh, tw, th)
      [] mode = "match_height" -> match_height(sw, sh, tw, th)
      [] mode = "stretch"      -> stretch(sw, sh, tw, th)
      [] mode = "auto"         -> auto(sw, sh, tw, th)

\* ------------------------------------------------- request parameters
\* A path parameter as it reaches the handler: an integer, or text that
\* int() cannot parse.
Num(v) == [parse |-> TRUE, val |-> v]
Txt == [parse |-> FALSE, val |-> 0]

\* The requests the model issues: (target_w, target_h, mode).
RequestInputs ==
    { <<Num(100), Num(100), "auto">>,
      <<Num(9000), Num(50), "match_height">>,
      <<Txt, Num(100), "auto">> }

NoInput == <<Txt, Txt, "auto">>

\* server.py:85-86: max(0, min(int(x), 4096 * 2))
Clamp(v) == Max(0, Min(v, MaxDim))

\* server.py:84-91: int() raises on unparseable text, which the bare except
\* turns into the 400 response.
ParamsParse(i) == i[1].parse /\ i[2].parse

\* str() of a non-negative integer: its decimal digits, most significant
\* first, as a sequence of characters.
DigitChars == <<"0", "1", "2", "3", "4", "5", "6", "7", "8", "9">>

RECURSIVE Digits(_)
Digits(n) ==
    IF n < 10 THEN <<DigitChars[n + 1]>>
              ELSE Append(Digits(n \div 10), DigitChars[(n % 10) + 1])

\* server.py:54-58 and 145: the text the f-string puts for the mode, the
\* member's value.  (An interpreter that formats a member by its name puts
\* "Mode." before the same word, for every key alike.)
ModeText(mode) ==
    CASE mode = "auto" -> <<"a", "u", "t", "o">>
      [] mode = "match_height" ->
            <<"m", "a", "t", "c", "h", "_", "h", "e", "i", "g", "h", "t">>
      [] mode = "match_width" ->
            <<"m", "a", "t", "c", "h", "_", "w", "i", "d", "t", "h">>
      [] mode = "stretch" -> <<"s", "t", "r", "e", "t", "c", "h">>

\* The key with the separators left out
CacheKeyNoSeparator(w, h, mode) == Digits(w) \o Digits(h) \o ModeText(mode)

\* server.py:145: f"{target_w}_{target_h}_{mode}", as a sequence of characters
CacheKey(w, h, mode) ==
    Digits(w) \o <<"_">> \o Digits(h) \o <<"_">> \o ModeText(mode)

KeyOfInput(i) == CacheKey(Clamp(i[1].val), Clamp(i[2].val), i[3])

Keys == { KeyOfInput(i) : i \in { j \in RequestInputs : ParamsParse(j) } }

\* ------------------------------------------------- stored images
\* What a client may upload: a 800x400 image, a file with an image header
\* whose pixel data cannot be decoded, and a file that is no image.
Contents == {"landscape", "truncated", "text"}

\* server.py:225-230: imghdr.what() reads the header only
HeaderIsImage(c) == c \in {"landscape", "truncated"}

\* PIL decodes the pixel data when create_scaled_image resizes
Decodable(c) == c = "landscape"

\* server.py:100: image.size, read from the header
SourceSize(c) == <<800, 400>>

\* The length of the PNG encoding of a w x h image (server.py:141-142); the
\* encoder is PIL's, the model takes a fixed header plus one byte per pixel.
PngLen(w, h) == 192 + w * h

NoEntry == [rec |-> 0, mod |-> 0, buf |-> 0, setAt |-> 0]
NoBuf == [content |-> "", w |-> 0, h |-> 0, n |-> 0, pos |-> 0]
NoLoc == [key |-> <<>>, rec |-> 0, content |-> "", mod |-> 0,
          buf |-> 0, hit |-> FALSE, status |-> 0]
NoResp == [maxAge |-> 0, etag |-> <<0, 0>>, lastMod |-> 0, clen |-> 0]
NoDim == <<>>

\* ------------------------------------------------- the memoizer of tools.py
\* server.py:70, the timeout given to the decorator of favicon()
timeout_in_ms == 1000 * 60 * 60 * 24

\* tools.py:31: args + (separator,) + the sorted keyword arguments
z_key(args, kwargs) == args \o <<"separator">> \o kwargs

\* server.py:69-71: the route calls favicon() without arguments
FaviconKey == z_key(<<>>, <<>>)

ZKeys == {FaviconKey}

\* tools.py:33-38: the times under key k whose result is kept by the loop of
\* a call made at time t; the others are popped.
z_fresh(k, t) == { s \in zstore[k] : t - s < timeout_in_ms }

\* The latest of a non-empty set of times: the dict is walked in insertion
\* order, so the result the loop ends with is the last one stored.
Latest(S) == CHOOSE s \in S : \A u \in S : u <= s

NoRet == [called |-> FALSE, obj |-> 0, hit |-> FALSE]
NoArgs == [method |-> "None", background |-> FALSE, ran |-> FALSE]
NoKeyIn == <<>>
NoKeyOut == <<>>

\* Nothing is memoized, no response has been given arguments, no key has
\* been built on its own.
InitRest ==
    /\ zstore = [k \in ZKeys |-> {}]
    /\ zret = NoRet
    /\ rsp = [p \in Slots |-> NoArgs]
    /\ keyIn = NoKeyIn
    /\ keyOut = NoKeyOut

\* ------------------------------------------------- initial state
\* The server has just started against a store that dbCreator.py set up:
\* the table exists and is empty, files/ is empty, nothing is cached.
Init ==
    /\ now = 0
    /\ ticks = 0
    /\ dbTable = TRUE
    /\ records = {}
    /\ files = {}
    /\ nextId = 0
    /\ dbc = "notrun"
    /\ cache = [k \in Keys |-> NoEntry]
    /\ bufs = [p \in Slots |-> NoBuf]
    /\ pc = [p \in Slots |-> "idle"]
    /\ inp = [p \in Slots |-> NoInput]
    /\ loc = [p \in Slots |-> NoLoc]
    /\ resp = [p \in Slots |-> NoResp]
    /\ sent = [p \in Slots |-> <<>>]
    /\ disconnected = [p \in Slots |-> FALSE]
    /\ dimIn = <<"auto", 1, 1, 0, 0>>
    /\ dimOut = NoDim
    /\ InitRest
\* ------------------------------------------------- the environment
\* The amounts the clock may advance by in one step: a second, and half a
\* second less than the ttl.
TickSteps == {1000, TtlMs - 500}

\* No handler is between its first and its last step.
Quiet == \A p \in Procs : pc[p] \in {"idle", "done"}

Cached(k) == cache[k].buf # 0

\* aiocache arms a timer at each set (server.py:40 gives the ttl): the entry
\* is deleted ttl seconds after the set.
Deadline(k) == cache[k].setAt + TtlMs

\* The clock advances.  A timer that is due runs before the clock moves on,
\* and the clock does not jump over a timer: it stops at the earliest one.
\* While a handler is at work the clock advances by a second at most in one
\* step; the long advance is the time between requests.
Tick(d) ==
    /\ ticks < MaxTicks
    /\ d > 1000 => Quiet
    /\ \A k \in Keys : Cached(k) => now < Deadline(k)
    /\ LET stops == { Deadline(k) : k \in { j \in Keys : Cached(j) } }
           to == now + d
       IN  now' = IF \E t \in stops : t < to
                  THEN CHOOSE t \in stops : \A u \in stops : t <= u
                  ELSE to
    /\ ticks' = ticks + 1
    /\ UNCHANGED <<dbVars, cache, bufs, reqVars, dimVars, restVars>>

\* The timer of key k fires: the entry is deleted.
Expire(k) ==
    /\ Cached(k)
    /\ now >= Deadline(k)
    /\ cache' = [cache EXCEPT ![k] = NoEntry]
    /\ UNCHANGED <<now, ticks, dbVars, bufs, reqVars, dimVars, restVars>>

\* server.py:210-258, POST /images with a file of content c; ct says whether
\* the Content-Type header names an image.  A rejected upload (400, 409, or
\* the failed query when the table is missing) changes nothing.
Upload(c, ct) ==
    /\ nextId < MaxUploads
    /\ IF /\ ct
          /\ HeaderIsImage(c)
          /\ dbTable
          /\ \A r \in records : r.content # c
       THEN /\ nextId' = nextId + 1
            /\ files' = files \cup {nextId + 1}
            /\ records' = records \cup {[id |-> nextId + 1, content |-> c]}
            /\ UNCHANGED <<dbTable, dbc>>
       ELSE UNCHANGED dbVars
    /\ UNCHANGED <<now, ticks, cache, bufs, reqVars, dimVars, restVars>>

\* dbCreator.py:10, os.remove("db.db"): the table and its rows are gone.
DbRemove ==
    /\ dbc = "notrun"
    /\ dbc' = "removed"
    /\ dbTable' = FALSE
    /\ records' = {}
    /\ UNCHANGED <<files, nextId>>
    /\ UNCHANGED <<now, ticks, cache, bufs, reqVars, dimVars, restVars>>

\* dbCreator.py:16-18, CREATE TABLE IMAGES
DbCreateTable ==
    /\ dbc = "removed"
    /\ dbc' = "created"
    /\ dbTable' = TRUE
    /\ UNCHANGED <<records, files, nextId>>
    /\ UNCHANGED <<now, ticks, cache, bufs, reqVars, dimVars, restVars>>

\* dbCreator.py:20-22, every file under files/ is removed
DbRemoveFiles ==
    /\ dbc = "created"
    /\ dbc' = "finished"
    /\ files' = {}
    /\ UNCHANGED <<dbTable, records, nextId>>
    /\ UNCHANGED <<now, ticks, cache, bufs, reqVars, dimVars, restVars>>

\* ------------------------------------------------- GET /images/{w}x{h}
Finish(p, code) ==
    /\ pc' = [pc EXCEPT ![p] = "done"]
    /\ loc' = [loc EXCEPT ![p].status = code]

\* Request that takes every lookup for a miss
RequestAlwaysMisses(p, i) ==
    /\ pc[p] = "idle"
    /\ \A q \in Procs : q < p => pc[q] # "idle"
    /\ inp' = [inp EXCEPT ![p] = i]
    /\ IF ~ParamsParse(i)
       THEN /\ pc' = [pc EXCEPT ![p] = "done"]
            /\ loc' = [loc EXCEPT ![p].status = 400]
       ELSE /\ pc' = [pc EXCEPT ![p] = "select"]
            /\ loc' = [loc EXCEPT ![p].key = KeyOfInput(i)]
    /\ UNCHANGED <<now, ticks, dbVars, cache, bufs, resp, sent, disconnected,
                   dimVars, restVars>>

\* server.py:84-91, 145, 158-160: the parameters are parsed and clamped, the
\* key is built and the cache is read.  The slots are interchangeable, so
\* they are taken in order.
Request(p, i) ==
    /\ pc[p] = "idle"
    /\ \A q \in Procs : q < p => pc[q] # "idle"
    /\ inp' = [inp EXCEPT ![p] = i]
    /\ IF ~ParamsParse(i)
       THEN /\ pc' = [pc EXCEPT ![p] = "done"]
            /\ loc' = [loc EXCEPT ![p].status = 400]
       ELSE LET k == KeyOfInput(i)
                e == cache[k]
            IN  IF Cached(k)
                THEN /\ pc' = [pc EXCEPT ![p] = "build"]
                     /\ loc' = [loc EXCEPT ![p].key = k, ![p].rec = e.rec,
                                           ![p].mod = e.mod, ![p].buf = e.buf,
                                           ![p].hit = TRUE]
                ELSE /\ pc' = [pc EXCEPT ![p] = "select"]
                     /\ loc' = [loc EXCEPT ![p].key = k]
    /\ UNCHANGED <<now, ticks, dbVars, cache, bufs, resp, sent, disconnected,
                   dimVars, restVars>>

\* Select without the test for an empty result: row is None and the
\* subscript raises.
SelectNoRowCheck(p) ==
    /\ pc[p] = "select"
    /\ \/ /\ ~dbTable
          /\ Finish(p, 500)
       \/ /\ dbTable
          /\ records = {}
          /\ Finish(p, 500)
       \/ /\ dbTable
          /\ \E r \in records :
                /\ pc' = [pc EXCEPT ![p] = "render"]
                /\ loc' = [loc EXCEPT ![p].rec = r.id, ![p].content = r.content]
    /\ UNCHANGED <<now, ticks, dbVars, cache, bufs, inp, resp, sent, disconnected,
                   dimVars, restVars>>

\* Select that calls create_scaled_image in the handler itself: the render
\* is over when the step of the event loop is.
SelectRendersInline(p) ==
    /\ pc[p] = "select"
    /\ \/ /\ ~dbTable
          /\ Finish(p, 500)
          /\ UNCHANGED bufs
       \/ /\ dbTable
          /\ records = {}
          /\ Finish(p, 404)
          /\ UNCHANGED bufs
       \/ /\ dbTable
          /\ \E r \in records :
                LET sz == ResolveSize(inp[p][3], SourceSize(r.content)[1],
                                      SourceSize(r.content)[2],
                                      Clamp(inp[p][1].val), Clamp(inp[p][2].val))
                IN  IF r.id \notin files \/ ~Decodable(r.content)
                       \/ sz[1] = 0 \/ sz[2] = 0
                    THEN /\ pc' = [pc EXCEPT ![p] = "done"]
                         /\ loc' = [loc EXCEPT ![p].rec = r.id,
                                               ![p].content = r.content,
                                               ![p].status = 500]
                         /\ UNCHANGED bufs
                    ELSE /\ pc' = [pc EXCEPT ![p] = "store"]
                         /\ loc' = [loc EXCEPT ![p].rec = r.id,
                                               ![p].content = r.content,
                                               ![p].buf = p, ![p].mod = now]
                         /\ bufs' = [bufs EXCEPT ![p] =
                                [content |-> r.content, w |-> sz[1], h |-> sz[2],
                                 n |-> PngLen(sz[1], sz[2]),
                                 pos |-> PngLen(sz[1], sz[2])]]
    /\ UNCHANGED <<now, ticks, dbVars, cache, inp, resp, sent, disconnected,
                   dimVars, restVars>>

\* server.py:161-177: one row is selected at random; no row is 404; the
\* render is handed to the worker pool.  Without the table the query raises.
Select(p) ==
    /\ pc[p] = "select"
    /\ \/ /\ ~dbTable
          /\ Finish(p, 500)
       \/ /\ dbTable
          /\ records = {}
          /\ Finish(p, 404)
       \/ /\ dbTable
          /\ \E r \in records :
                /\ pc' = [pc EXCEPT ![p] = "render"]
                /\ loc' = [loc EXCEPT ![p].rec = r.id, ![p].content = r.content]
    /\ UNCHANGED <<now, ticks, dbVars, cache, bufs, inp, resp, sent, disconnected,
                   dimVars, restVars>>

\* The size create_scaled_image resizes to for the request of slot p.
RenderSize(p) ==
    LET i == inp[p]
        s == SourceSize(loc[p].content)
    IN  ResolveSize(i[3], s[1], s[2], Clamp(i[1].val), Clamp(i[2].val))

\* server.py:97-100, 140-142: what makes create_scaled_image raise: a
\* missing file, undecodable data, and an empty target size (PIL refuses to
\* resize to it).
RenderRaises(p) ==
    \/ loc[p].rec \notin files
    \/ ~Decodable(loc[p].content)
    \/ RenderSize(p)[1] = 0
    \/ RenderSize(p)[2] = 0

\* server.py:140-143, 175-178: the buffer comes back positioned at its end
\* (the save wrote it) and the handler stamps modification_date.
RenderPass(p) ==
    LET sz == RenderSize(p)
    IN  /\ bufs' = [bufs EXCEPT ![p] =
                      [content |-> loc[p].content, w |-> sz[1], h |-> sz[2],
                       n |-> PngLen(sz[1], sz[2]), pos |-> PngLen(sz[1], sz[2])]]
        /\ loc' = [loc EXCEPT ![p].buf = p, ![p].mod = now]
        /\ pc' = [pc EXCEPT ![p] = "store"]

\* RenderDone that swallows the exception and goes on with an empty buffer
RenderDoneCachesFailure(p) ==
    /\ pc[p] = "render"
    /\ \/ /\ RenderRaises(p)
          /\ bufs' = [bufs EXCEPT ![p] = [NoBuf EXCEPT !.content = loc[p].content]]
          /\ loc' = [loc EXCEPT ![p].buf = p, ![p].mod = now]
          /\ pc' = [pc EXCEPT ![p] = "store"]
       \/ /\ ~RenderRaises(p)
          /\ RenderPass(p)
    /\ UNCHANGED <<now, ticks, dbVars, cache, inp, resp, sent, disconnected, dimVars, restVars>>

\* RenderDone that is cancelled with the request when the client is gone
RenderDoneCancelled(p) ==
    /\ pc[p] = "render"
    /\ \/ /\ disconnected[p]
          /\ Finish(p, 499)
          /\ UNCHANGED bufs
       \/ /\ ~disconnected[p]
          /\ RenderRaises(p)
          /\ Finish(p, 500)
          /\ UNCHANGED bufs
       \/ /\ ~disconnected[p]
          /\ ~RenderRaises(p)
          /\ RenderPass(p)
    /\ UNCHANGED <<now, ticks, dbVars, cache, inp, resp, sent, disconnected, dimVars, restVars>>

\* server.py:93-143 and 175-178: create_scaled_image runs on the pool.  An
\* exception leaves the handler (the request ends in a 500); otherwise the
\* handler goes on to store the result.
RenderDone(p) ==
    /\ pc[p] = "render"
    /\ \/ /\ RenderRaises(p)
          /\ Finish(p, 500)
          /\ UNCHANGED bufs
       \/ /\ ~RenderRaises(p)
          /\ RenderPass(p)
    /\ UNCHANGED <<now, ticks, dbVars, cache, inp, resp, sent, disconnected, dimVars, restVars>>

\* Store that empties the cache before it writes
StoreClearsOthers(p) ==
    /\ pc[p] = "store"
    /\ cache' = [k \in Keys |->
                    IF k = loc[p].key
                    THEN [rec |-> loc[p].rec, mod |-> loc[p].mod,
                          buf |-> loc[p].buf, setAt |-> now]
                    ELSE NoEntry]
    /\ pc' = [pc EXCEPT ![p] = "build"]
    /\ UNCHANGED <<now, ticks, dbVars, bufs, inp, loc, resp, sent, disconnected,
                   dimVars, restVars>>

\* server.py:179-182: the entry is written, replacing the key's entry and
\* re-arming its timer.
Store(p) ==
    /\ pc[p] = "store"
    /\ cache' = [cache EXCEPT ![loc[p].key] =
                    [rec |-> loc[p].rec, mod |-> loc[p].mod,
                     buf |-> loc[p].buf, setAt |-> now]]
    /\ pc' = [pc EXCEPT ![p] = "build"]
    /\ UNCHANGED <<now, ticks, dbVars, bufs, inp, loc, resp, sent, disconnected,
                   dimVars, restVars>>

\* server.py:186-193
MaxAge(t, mod) == Abs(t - (mod + TtlMs)) \div 1000

\* tools.py:85-90: md5 over "<ms>-<nbytes>"; the text is one-to-one in the
\* pair and the digest is taken to be collision-free.
ETag(mod, n) == <<mod, n>>

\* tools.py:92: formatdate() prints whole seconds
LastModified(mod) == mod \div 1000

\* server.py:184-207 and tools.py:59-105: the cached buffer is rewound, the
\* headers are computed and the response start is sent.
Build(p) ==
    /\ pc[p] = "build"
    /\ bufs' = [bufs EXCEPT ![loc[p].buf].pos = 0]
    /\ resp' = [resp EXCEPT ![p] =
                  [maxAge |-> MaxAge(now, loc[p].mod),
                   etag |-> ETag(loc[p].mod, bufs[loc[p].buf].n),
                   lastMod |-> LastModified(loc[p].mod),
                   clen |-> bufs[loc[p].buf].n]]
    /\ pc' = [pc EXCEPT ![p] = "body"]
    /\ loc' = [loc EXCEPT ![p].status = 200]
    /\ UNCHANGED <<now, ticks, dbVars, cache, inp, sent, disconnected, dimVars, restVars>>

\* The methods a response may be given: none (get() passes none), and
\* names in either case.
Methods == {"None", "GET", "HEAD", "head"}

\* str.upper() on the method names
Upper(m) == IF m = "head" THEN "HEAD" ELSE m

\* tools.py:72
send_header_only(method) == method # "None" /\ Upper(method) = "HEAD"

\* tools.py:121-122: where __call__ goes on after the last body message
AfterBody(p) == IF rsp[p].background THEN "background" ELSE "done"

\* RespStart that awaits the background task before the body
RespStartBackgroundFirst(p) ==
    /\ pc[p] = "start"
    /\ pc' = [pc EXCEPT ![p] = IF rsp[p].background THEN "background" ELSE "body"]
    /\ loc' = [loc EXCEPT ![p].status = 200]
    /\ UNCHANGED <<now, ticks, dbVars, cache, bufs, inp, resp, sent, disconnected,
                   dimVars, restVars>>

\* tools.py:99-105: the response start is sent, with the status (200 by
\* default) and the headers the constructor has set.
RespStart(p) ==
    /\ pc[p] = "start"
    /\ pc' = [pc EXCEPT ![p] = "body"]
    /\ loc' = [loc EXCEPT ![p].status = 200]
    /\ UNCHANGED <<now, ticks, dbVars, cache, bufs, inp, resp, sent, disconnected,
                   dimVars, restVars>>

\* tools.py:106-120.  In header-only mode one empty body message is sent.
\* Otherwise one turn of the loop: a read of at most chunk_size bytes from
\* the buffer's position, then the send.
SendBody(p) ==
    /\ pc[p] = "body"
    /\ IF send_header_only(rsp[p].method)
       THEN /\ sent' = [sent EXCEPT ![p] =
                            Append(@, [lo |-> 0, hi |-> 0, more |-> FALSE])]
            /\ pc' = [pc EXCEPT ![p] = AfterBody(p)]
            /\ UNCHANGED bufs
       ELSE LET b == loc[p].buf
                lo == bufs[b].pos
                hi == Min(lo + chunk_size, bufs[b].n)
                more == (hi - lo = chunk_size)
            IN  /\ bufs' = [bufs EXCEPT ![b].pos = hi]
                /\ sent' = [sent EXCEPT ![p] =
                                Append(@, [lo |-> lo, hi |-> hi, more |-> more])]
                /\ pc' = [pc EXCEPT ![p] = IF more THEN "body" ELSE AfterBody(p)]
    /\ UNCHANGED <<now, ticks, dbVars, cache, inp, loc, resp, disconnected,
                   dimVars, restVars>>

\* tools.py:121-122: the background task is awaited.  What the task does is
\* its maker's business; the messages already sent are out of its reach.
Background(p) ==
    /\ pc[p] = "background"
    /\ rsp' = [rsp EXCEPT ![p].ran = TRUE]
    /\ pc' = [pc EXCEPT ![p] = "done"]
    /\ UNCHANGED <<now, ticks, dbVars, cache, bufs, inp, loc, resp, sent,
                   disconnected, dimVars, zVars, keyVars>>

\* The client of slot p goes away while its render is on the pool.  Nothing
\* in the handler looks at the connection.
Disconnect(p) ==
    /\ pc[p] = "render"
    /\ ~disconnected[p]
    /\ disconnected' = [disconnected EXCEPT ![p] = TRUE]
    /\ UNCHANGED <<now, ticks, dbVars, cache, bufs, pc, inp, loc, resp, sent,
                   dimVars, restVars>>

\* ------------------------------------------------- GET /favicon.ico
\* cached_func that takes no notice of the result it found
FaviconNoReturn ==
    LET call_time == now
        key == FaviconKey
        kept == z_fresh(key, call_time)
    IN  /\ zstore' = [zstore EXCEPT ![key] = kept \cup {call_time}]
        /\ zret' = [called |-> TRUE, obj |-> call_time, hit |-> FALSE]
        /\ UNCHANGED <<now, ticks, dbVars, cache, bufs, reqVars, dimVars,
                       rsp, keyVars>>

\* server.py:69-78 and tools.py:28-49: one call of the memoized favicon().
\* favicon() awaits nothing, so the call runs in one step of the event
\* loop.  The entries of the key that are out of time are popped; a result
\* that is left is returned (a Response object is true); otherwise favicon()
\* makes a Response, which is stored under the time of the call.  A result
\* is named by the time it was stored under.
Favicon ==
    LET call_time == now
        key == FaviconKey
        kept == z_fresh(key, call_time)
    IN  /\ IF kept # {}
           THEN /\ zstore' = [zstore EXCEPT ![key] = kept]
                /\ zret' = [called |-> TRUE, obj |-> Latest(kept),
                            hit |-> TRUE]
           ELSE /\ zstore' = [zstore EXCEPT ![key] = kept \cup {call_time}]
                /\ zret' = [called |-> TRUE, obj |-> call_time,
                            hit |-> FALSE]
        /\ UNCHANGED <<now, ticks, dbVars, cache, bufs, reqVars, dimVars,
                       rsp, keyVars>>

Next ==
    \/ \E d \in TickSteps : Tick(d)
    \/ \E k \in Keys : Expire(k)
    \/ \E c \in Contents, ct \in BOOLEAN : Upload(c, ct)
    \/ DbRemove
    \/ DbCreateTable
    \/ DbRemoveFiles
    \/ \E p \in Procs, i \in RequestInputs : Request(p, i)
    \/ \E p \in Procs : Select(p)
    \/ \E p \in Procs : RenderDone(p)
    \/ \E p \in Procs : Store(p)
    \/ \E p \in Procs : Build(p)
    \/ \E p \in Procs : SendBody(p)

Spec == Init /\ [][Next]_vars

\* ------------------------------------------------- without the clock
\* The handler, the uploads and the store reset with the clock standing
\* still: no step of the handler waits for a time.
NextHandler ==
    \/ \E c \in Contents, ct \in BOOLEAN : Upload(c, ct)
    \/ DbRemove
    \/ DbCreateTable
    \/ DbRemoveFiles
    \/ \E p \in Procs, i \in RequestInputs : Request(p, i)
    \/ \E p \in Procs : Select(p)
    \/ \E p \in Procs : RenderDone(p)
    \/ \E p \in Procs : Store(p)
    \/ \E p \in Procs : Build(p)
    \/ \E p \in Procs : SendBody(p)

SpecHandler == Init /\ [][NextHandler]_vars

\* ------------------------------------------------- progress
\* The same with clients that may go away.  The pool runs every render
\* handed to it and the event loop resumes every handler whose awaited step
\* is over.
NextFair ==
    \/ \E c \in Contents, ct \in BOOLEAN : Upload(c, ct)
    \/ DbRemove
    \/ DbCreateTable
    \/ DbRemoveFiles
    \/ \E p \in Procs, i \in RequestInputs : Request(p, i)
    \/ \E p \in Procs : Select(p)
    \/ \E p \in Procs : RenderDone(p)
    \/ \E p \in Procs : Store(p)
    \/ \E p \in Procs : Build(p)
    \/ \E p \in Procs : SendBody(p)
    \/ \E p \in Procs : Disconnect(p)

FairSpec ==
    /\ Init
    /\ [][NextFair]_vars
    /\ \A p \in Procs :
          /\ WF_vars(Select(p))
          /\ WF_vars(RenderDone(p))
          /\ WF_vars(Store(p))
          /\ WF_vars(Build(p))
          /\ WF_vars(SendBody(p))

\* ------------------------------------------------- the two caches
\* The requests for images and for the icon, against a store that holds
\* one image, under a clock that advances by a second or by the icon's
\* timeout (and then stops at the first timer of the image cache).
CacheTickSteps == {1000, timeout_in_ms}

\* The requests whose parameters parse: the others never reach a cache.
CacheInputs == { i \in RequestInputs : ParamsParse(i) }

NextCache ==
    \/ \E d \in CacheTickSteps : Tick(d)
    \/ \E k \in Keys : Expire(k)
    \/ Upload("landscape", TRUE)
    \/ Favicon
    \/ \E p \in Procs, i \in CacheInputs : Request(p, i)
    \/ \E p \in Procs : Select(p)
    \/ \E p \in Procs : RenderDone(p)
    \/ \E p \in Procs : Store(p)
    \/ \E p \in Procs : Build(p)
    \/ \E p \in Procs : SendBody(p)

SpecCache == Init /\ [][NextCache]_vars

\* ------------------------------------------------- the resolver alone
SrcDims == 1..MaxSrcDim
TargetDims == (0..MaxTargetDim) \cup {MaxDim}

InitResolve ==
    /\ now = 0
    /\ ticks = 0
    /\ dbTable = TRUE
    /\ records = {}
    /\ files = {}
    /\ nextId = 0
    /\ dbc = "notrun"
    /\ cache = [k \in Keys |-> NoEntry]
    /\ bufs = [p \in Slots |-> NoBuf]
    /\ pc = [p \in Slots |-> "idle"]
    /\ inp = [p \in Slots |-> NoInput]
    /\ loc = [p \in Slots |-> NoLoc]
    /\ resp = [p \in Slots |-> NoResp]
    /\ sent = [p \in Slots |-> <<>>]
    /\ disconnected = [p \in Slots |-> FALSE]
    /\ dimIn \in Modes \X SrcDims \X SrcDims \X TargetDims \X TargetDims
    /\ dimOut = NoDim
    /\ InitRest

\* server.py:138 on the inputs drawn
Resolve ==
    /\ dimOut = NoDim
    /\ dimOut' = ResolveSize(dimIn[1], dimIn[2], dimIn[3], dimIn[4], dimIn[5])
    /\ UNCHANGED <<now, ticks, dbVars, cache, bufs, reqVars, dimIn, restVars>>

NextResolve == Resolve

SpecResolve == InitResolve /\ [][NextResolve]_vars
\* ------------------------------------------------- three requests
\* Three requests against a store that holds one image, the clock standing
\* still: one request can fill the cache for a key, a second be rendering
\* another key, and a third ask for the first key meanwhile.
NextPool ==
    \/ Upload("landscape", TRUE)
    \/ \E p \in Slots, i \in CacheInputs : Request(p, i)
    \/ \E p \in Slots : Select(p)
    \/ \E p \in Slots : RenderDone(p)
    \/ \E p \in Slots : Store(p)
    \/ \E p \in Slots : Build(p)
    \/ \E p \in Slots : SendBody(p)

SpecPool == Init /\ [][NextPool]_vars

\* ------------------------------------------------- the cache key alone
\* The server's own state at start, as in Init.
InitServer ==
    /\ now = 0
    /\ ticks = 0
    /\ dbTable = TRUE
    /\ records = {}
    /\ files = {}
    /\ nextId = 0
    /\ dbc = "notrun"
    /\ cache = [k \in Keys |-> NoEntry]
    /\ bufs = [p \in Slots |-> NoBuf]
    /\ pc = [p \in Slots |-> "idle"]
    /\ inp = [p \in Slots |-> NoInput]
    /\ loc = [p \in Slots |-> NoLoc]
    /\ resp = [p \in Slots |-> NoResp]
    /\ sent = [p \in Slots |-> <<>>]
    /\ disconnected = [p \in Slots |-> FALSE]
    /\ dimIn = <<"auto", 1, 1, 0, 0>>
    /\ dimOut = NoDim
    /\ zstore = [k \in ZKeys |-> {}]
    /\ zret = NoRet

\* Clamped dimensions of one, two, three and four digits.
KeyDims == (0..MaxKeyDim) \cup {10, 11, 100, MaxDim}
KeyTriples == KeyDims \X KeyDims \X Modes

\* Two requests' clamped parameters.
InitKey ==
    /\ InitServer
    /\ rsp = [p \in Slots |-> NoArgs]
    /\ keyIn \in KeyTriples \X KeyTriples
    /\ keyOut = NoKeyOut

\* server.py:145 for each of the two
BuildKeys ==
    /\ keyOut = NoKeyOut
    /\ keyOut' = <<CacheKey(keyIn[1][1], keyIn[1][2], keyIn[1][3]),
                   CacheKey(keyIn[2][1], keyIn[2][2], keyIn[2][3])>>
    /\ UNCHANGED <<now, ticks, dbVars, cache, bufs, reqVars, dimVars,
                   zVars, rsp, keyIn>>

NextKey == BuildKeys

SpecKey == InitKey /\ [][NextKey]_vars
\* ------------------------------------------------- the response alone
\* BytesIOResponse on its own: an object built (tools.py:59-96) over a
\* rewound buffer of a drawn length, with a drawn method and with or without
\* a background task, and no last_modified.
RespLens ==
    {0, 1, chunk_size - 1, chunk_size, chunk_size + 1}
        \cup { k * chunk_size : k \in 2..MaxChunks }

InitResponse ==
    /\ now = 0
    /\ ticks = 0
    /\ dbTable = TRUE
    /\ records = {}
    /\ files = {}
    /\ nextId = 0
    /\ dbc = "notrun"
    /\ cache = [k \in Keys |-> NoEntry]
    /\ \E n \in RespLens :
          /\ bufs = [p \in Slots |->
                       IF p = 1 THEN [NoBuf EXCEPT !.n = n] ELSE NoBuf]
          /\ resp = [p \in Slots |->
                       IF p = 1 THEN [NoResp EXCEPT !.clen = n] ELSE NoResp]
    /\ pc = [p \in Slots |-> IF p = 1 THEN "start" ELSE "idle"]
    /\ inp = [p \in Slots |-> NoInput]
    /\ loc = [p \in Slots |-> IF p = 1 THEN [NoLoc EXCEPT !.buf = 1] ELSE NoLoc]
    /\ sent = [p \in Slots |-> <<>>]
    /\ disconnected = [p \in Slots |-> FALSE]
    /\ dimIn = <<"auto", 1, 1, 0, 0>>
    /\ dimOut = NoDim
    /\ zstore = [k \in ZKeys |-> {}]
    /\ zret = NoRet
    /\ \E m \in Methods, bg \in BOOLEAN :
          rsp = [p \in Slots |->
                    IF p = 1 THEN [method |-> m, background |-> bg, ran |-> FALSE]
                             ELSE NoArgs]
    /\ keyIn = NoKeyIn
    /\ keyOut = NoKeyOut

NextResponse ==
    \/ RespStart(1)
    \/ SendBody(1)
    \/ Background(1)

SpecResponse == InitResponse /\ [][NextResponse]_vars
\* ================================================= properties
Answered(p) == pc[p] \in {"body", "done"} /\ loc[p].status = 200

\* C1: every response carries a max-age N with 0 <= N <= TTL seconds, and
\* N = 0 whenever the entry's age at the time the header is computed is at
\* or past the TTL.
C1_MaxAgeWithinTtl ==
    [][\A p \in Procs :
        (pc[p] = "build" /\ pc'[p] = "body") =>
            LET n == resp'[p].maxAge
                age == now - loc[p].mod
            IN  /\ 0 <= n
                /\ n <= CACHE_TIME_IN_SEC
                /\ (age >= TtlMs => n = 0)]_vars

\* C2: at most one render is in flight per cache key at any instant.
InFlight(k) == { p \in Procs : pc[p] = "render" /\ loc[p].key = k }

C2_SingleFlight == \A k \in Keys : Cardinality(InFlight(k)) <= 1

\* The chunks s, put end to end, are the bytes from offset `from` to n.
RECURSIVE Covers(_, _, _)
Covers(s, from, n) ==
    IF s = <<>> THEN from = n
    ELSE IF Head(s).lo = Head(s).hi THEN Covers(Tail(s), from, n)
    ELSE Head(s).lo = from /\ Covers(Tail(s), Head(s).hi, n)

RECURSIVE BodyLen(_)
BodyLen(s) == IF s = <<>> THEN 0 ELSE (Head(s).hi - Head(s).lo) + BodyLen(Tail(s))

\* C3: the body chunks of a finished response, put end to end, are the
\* entry's rendered bytes, and their total length is the Content-Length.
C3_BodyIsEntryBytes ==
    \A p \in Procs :
        (pc[p] = "done" /\ loc[p].status = 200) =>
            /\ Covers(sent[p], 0, bufs[loc[p].buf].n)
            /\ BodyLen(sent[p]) = resp[p].clen

Payload(p) == <<bufs[loc[p].buf].content, bufs[loc[p].buf].w, bufs[loc[p].buf].h>>

\* C4: two responses for the same key whose renders lie within one TTL
\* window carry the same payload and the same ETag.
C4_Idempotent ==
    \A p, q \in Procs :
        ( /\ Answered(p) /\ Answered(q)
          /\ loc[p].key = loc[q].key
          /\ Abs(loc[p].mod - loc[q].mod) < TtlMs )
        => /\ resp[p].etag = resp[q].etag
           /\ Payload(p) = Payload(q)

\* C5: a request made later than t0 + TTL is not answered from the render
\* made at t0 (it renders anew, so its ETag and Last-Modified are new).
C5_StaleEntryNotServed ==
    [][\A p \in Procs :
        (pc[p] = "idle" /\ pc'[p] = "build") => now - loc'[p].mod <= TtlMs]_vars

RenderMustFail(p) == loc[p].rec \notin files \/ ~Decodable(loc[p].content)

InRange(i) ==
    /\ ParamsParse(i)
    /\ 0 <= i[1].val /\ i[1].val <= MaxDim
    /\ 0 <= i[2].val /\ i[2].val <= MaxDim

\* C7: a request whose width or height is not a parseable integer within
\* [0, 8192] is answered 400, selects no record and starts no render.
C7_OutOfRangeRejected ==
    \A p \in Procs :
        (pc[p] # "idle" /\ ~InRange(inp[p])) =>
            /\ pc[p] = "done"
            /\ loc[p].status = 400
            /\ loc[p].rec = 0

StoreEmpty == dbTable /\ records = {}

\* C8 as stated: a request handled while the store has no records never
\* takes another way than the one that ends in 404, whatever is cached.
C8_EmptyStoreAlways404 ==
    [][\A p \in Procs :
        (StoreEmpty /\ pc[p] \in {"idle", "select"} /\ pc'[p] # pc[p]
                    /\ ParamsParse(inp'[p])) =>
            \/ pc[p] = "idle" /\ pc'[p] = "select"
            \/ pc'[p] = "done" /\ loc'[p].status = 404]_vars

\* C8 amended: a request that misses the cache and finds the table empty
\* when it selects is answered 404; it selects no record, starts no render
\* and writes nothing to the cache.
C8_MissOnEmptyStore404 ==
    [][\A p \in Procs :
        (StoreEmpty /\ pc[p] = "select" /\ pc'[p] # "select") =>
            /\ pc'[p] = "done"
            /\ loc'[p].status = 404
            /\ loc'[p].rec = 0
            /\ cache' = cache
            /\ bufs' = bufs]_vars

C8_Witness ==
    \E p \in Procs :
        /\ pc[p] = "done" /\ loc[p].status = 404
        /\ \E k \in Keys : Cached(k)

RenderFailed(p) == pc[p] = "done" /\ loc[p].status = 500

\* The cache holds, under the key of slot p, the buffer p rendered.
StoredBy(p) ==
    \E k \in Keys : k = loc[p].key /\ cache[k].buf = p

\* C9 as stated, in the form a finite run refutes: a request that started
\* a render is never over without the render's result having been stored.
C9_RenderAlwaysStored ==
    \A p \in Procs :
        (pc[p] = "done" /\ loc[p].rec # 0 /\ ~loc[p].hit) =>
            (loc[p].buf = p /\ loc[p].status = 200)

\* C9 amended: a render that has been started completes, and if it
\* succeeds its result is stored under the key, also when the client has
\* gone away meanwhile.
C9_RenderCompletesAndStores ==
    \A p \in Procs :
        (pc[p] = "render") ~> (RenderFailed(p) \/ StoredBy(p))

C9_Witness ==
    \E p \in Procs : disconnected[p] /\ StoredBy(p)

IsFloor(q, a, b) == q * b <= a /\ a < (q + 1) * b

\* C10: stretch gives (w, h); match_width gives (w, floor(w*sh/sw));
\* match_height gives (floor(h*sw/sh), h); auto is match_width when
\* sw > sh and match_height otherwise.
C10_ResolvedSize ==
    dimOut # NoDim =>
        LET m == dimIn[1]
            sw == dimIn[2]
            sh == dimIn[3]
            w == dimIn[4]
            h == dimIn[5]
            mw == dimOut[1] = w /\ IsFloor(dimOut[2], w * sh, sw)
            mh == dimOut[2] = h /\ IsFloor(dimOut[1], h * sw, sh)
        IN  /\ m = "stretch" => dimOut = <<w, h>>
            /\ m = "match_width" => mw
            /\ m = "match_height" => mh
            /\ m = "auto" => IF sw > sh THEN mw ELSE mh

C10_Witness ==
    /\ dimOut # NoDim
    /\ dimIn[1] = "auto"
    /\ dimIn[2] = dimIn[3]
    /\ dimIn[4] # dimIn[5]
    /\ dimOut = <<dimIn[5], dimIn[5]>>

\* The entries of the memoizer under key k that are in time now.
ZCurrent(k) == { s \in zstore[k] : now - s < timeout_in_ms }

\* C11: no key ever holds two current entries, and a store replaces the
\* key's entry: after the write of a slot the image cache holds, under the
\* slot's key, that slot's record, time and buffer and nothing of the entry
\* that was there, also when two misses on the key overlap.
C11_OneCurrentEntry ==
    /\ [](\A k \in ZKeys : Cardinality(ZCurrent(k)) <= 1)
    /\ [][\A p \in Procs :
            (pc[p] = "store" /\ pc'[p] = "build") =>
                cache'[loc[p].key] =
                    [rec |-> loc[p].rec, mod |-> loc[p].mod,
                     buf |-> p, setAt |-> now]]_vars

\* Both slots missed on one key and stored, the second over the first, and
\* the memoizer has answered from its one entry.
C11_Witness ==
    /\ \E k \in Keys :
          /\ loc[1].key = k /\ loc[2].key = k
          /\ loc[1].buf = 1 /\ pc[1] \in {"build", "body", "done"}
          /\ loc[2].buf = 2 /\ cache[k].buf = 2
          /\ Abs(loc[1].mod - loc[2].mod) < TtlMs
    /\ zret.hit
    /\ Cardinality(zstore[FaviconKey]) = 1

\* C12: a lookup of key k at time now returns the stored entry exactly when
\* an entry of k is present with now - stored time < TTL; an entry that is
\* present and out of time is removed by the lookup, which reports a miss.
\* For the memoizer the lookup is the call of favicon(), for the image
\* cache it is the read at the start of a request; the stored time of an
\* image entry is the time of its write.
C12_LookupFreshOrEvict ==
    [][/\ (zret' # zret \/ zstore' # zstore) =>
            LET k == FaviconKey
            IN  /\ zret'.hit <=> (ZCurrent(k) # {})
                /\ zret'.hit => zret'.obj \in ZCurrent(k)
                /\ \A s \in zstore[k] \ ZCurrent(k) : s \notin zstore'[k]
       /\ \A p \in Procs :
            (pc[p] = "idle" /\ pc'[p] \in {"build", "select"}) =>
                LET k == KeyOfInput(inp'[p])
                    fresh == Cached(k) /\ now - cache[k].setAt < TtlMs
                IN  /\ pc'[p] = "build" <=> fresh
                    /\ pc'[p] = "build" => loc'[p].buf = cache[k].buf
                    /\ (Cached(k) /\ ~fresh) => cache'[k] = NoEntry]_vars

\* What the entry e holds, the read position of its buffer apart.
EntryData(e) ==
    <<e.rec, e.mod, e.buf, e.setAt,
      bufs[e.buf].content, bufs[e.buf].w, bufs[e.buf].h, bufs[e.buf].n>>

\* C13: a step of a request (its lookup, its write, any other) leaves the
\* entry of every key but its own as it was, and leaves the memoizer's store
\* alone; a call of the memoized favicon() leaves the image cache alone.
C13_OtherKeysUntouched ==
    [][/\ \A p \in Procs :
            pc'[p] # pc[p] =>
                /\ \A k \in Keys \ {loc'[p].key} :
                      /\ cache'[k] = cache[k]
                      /\ Cached(k) => EntryData(cache[k])' = EntryData(cache[k])
                /\ zstore' = zstore
       /\ (zret' # zret \/ zstore' # zstore) =>
            /\ cache' = cache
            /\ \A k \in ZKeys \ {FaviconKey} : zstore'[k] = zstore[k]]_vars

\* Both keys hold an entry, each written while the other key was being
\* served, and the memoizer holds one too.
C13_Witness ==
    /\ \E j, k \in Keys :
          /\ j # k
          /\ Cached(j) /\ Cached(k)
          /\ cache[j].setAt < cache[k].setAt
    /\ zstore[FaviconKey] # {}

\* C14: two requests get the same cache key exactly when their clamped
\* (target_w, target_h, mode) are the same.
C14_KeyInjective ==
    keyOut # NoKeyOut => (keyOut[1] = keyOut[2] <=> keyIn[1] = keyIn[2])

\* Keys built for (100, 100, stretch) and (100, 100, auto), and for
\* dimensions whose digits run together when put side by side.
C14_Witness ==
    /\ keyOut # NoKeyOut
    /\ \/ keyIn = <<<<100, 100, "stretch">>, <<100, 100, "auto">>>>
       \/ keyIn = <<<<1, 10, "auto">>, <<11, 0, "auto">>>>
    /\ keyOut[1] # keyOut[2]

\* Slot q has taken a step of its handler.
Stepped(q) == pc'[q] # pc[q] \/ sent'[q] # sent[q]

\* C15: the step that selects the record ends with the render handed to
\* the pool (nothing has been rendered when the step of the loop is over);
\* while a render is in flight every other request can take its next step
\* (it can be looked up, have its headers built, send its next chunk), and
\* such a step leaves the render in flight.
C15_LoopNotBlocked ==
    /\ [][\A p \in Slots :
            (pc[p] = "select" /\ pc'[p] \notin {"select", "done"}) =>
                (pc'[p] = "render" /\ bufs' = bufs /\ cache' = cache)]_vars
    /\ [](\A p, q \in Slots :
            (pc[p] = "render" /\ q # p) =>
                /\ (pc[q] = "idle" /\ \A r \in Slots : r < q => pc[r] # "idle") =>
                        \A i \in CacheInputs : ENABLED Request(q, i)
                /\ pc[q] = "build" => ENABLED Build(q)
                /\ pc[q] = "body" => ENABLED SendBody(q))
    /\ [][\A p, q \in Slots :
            (q # p /\ pc[p] = "render" /\ Stepped(q)) =>
                (pc'[p] = "render" /\ loc'[p] = loc[p])]_vars

\* A render is in flight for one key and a later request, for another key
\* whose entry is cached, has been answered in full from that entry.
C15_Witness ==
    \E p, q \in Slots :
        /\ p < q
        /\ pc[p] = "render"
        /\ pc[q] = "done" /\ loc[q].hit /\ loc[q].status = 200
        /\ loc[q].key # loc[p].key
        /\ Covers(sent[q], 0, bufs[loc[q].buf].n)

\* The final body message of slot p has been sent.
FinalSent(p) == sent[p] # <<>> /\ ~sent[p][Len(sent[p])].more

\* What has been delivered for slot p: the status, the headers, the body
\* messages.
Delivered(p) == <<loc[p].status, resp[p], sent[p]>>

\* C16: the background task runs only where one was given, starts only
\* after the final body message, and leaves what was delivered as it was;
\* after the final body message nothing more is delivered, and without a
\* background task the response is over.
C16_BackgroundAfterBody ==
    [][\A p \in Slots :
        /\ (rsp'[p].ran /\ ~rsp[p].ran) =>
              /\ rsp[p].background
              /\ FinalSent(p)
              /\ Delivered(p)' = Delivered(p)
        /\ FinalSent(p) =>
              /\ Delivered(p)' = Delivered(p)
              /\ ~rsp[p].background => (pc[p] = "done" /\ pc'[p] = "done")
              /\ pc[p] = "done" => pc'[p] = "done"
        /\ (pc'[p] = "done" /\ rsp'[p].background) => rsp'[p].ran]_vars

\* The background task has run after a body of more than one message.
C16_Witness ==
    \E p \in Slots :
        /\ pc[p] = "done" /\ rsp[p].ran
        /\ Len(sent[p]) >= 2

\* C17: when the headers of a response are computed, the entry it is made
\* from is in time by the time recorded in the entry: now - rendered_at is
\* less than the TTL.
C17_EmittedFromFreshEntry ==
    [][\A p \in Procs :
        (pc[p] = "build" /\ pc'[p] = "body") => now - loc[p].mod < TtlMs]_vars

\* The bytes of buffer b, its read position apart.
BufData(b) == <<bufs[b].content, bufs[b].w, bufs[b].h, bufs[b].n>>

\* C18: a request that finds an entry under its key goes straight to the
\* response: it selects no record, renders nothing and writes nothing to
\* the cache, and none of its steps changes the entry or its bytes; a
\* request that selects, renders or stores has missed.
C18_HitRendersNothing ==
    [][\A p \in Procs :
        /\ (pc[p] = "idle" /\ pc'[p] # "idle" /\ ParamsParse(inp'[p])) =>
              LET k == KeyOfInput(inp'[p])
              IN  IF Cached(k)
                  THEN /\ pc'[p] = "build"
                       /\ loc'[p].hit
                       /\ loc'[p].rec = cache[k].rec
                       /\ loc'[p].mod = cache[k].mod
                       /\ loc'[p].buf = cache[k].buf
                  ELSE pc'[p] = "select" /\ ~loc'[p].hit
        /\ ((loc[p].hit \/ loc'[p].hit) /\ Stepped(p)) =>
              /\ pc'[p] \notin {"select", "render", "store"}
              /\ cache' = cache
              /\ \A b \in Slots : b = loc'[p].buf => BufData(b)' = BufData(b)
              /\ loc[p].hit => loc'[p] = [loc[p] EXCEPT !.status = loc'[p].status]
        /\ pc'[p] \in {"select", "render", "store"} => ~loc'[p].hit]_vars

\* A request has been answered in full from an entry it found, and the
\* entry is still the key's.
C18_Witness ==
    \E p \in Procs, k \in Keys :
        /\ pc[p] = "done" /\ loc[p].hit /\ loc[p].status = 200
        /\ loc[p].key = k
        /\ cache[k].buf = loc[p].buf
        /\ loc[p].buf # p

\* The body messages s are well-formed so far: every message but the last
\* has more_body true and exactly chunk_size bytes, and each message starts
\* in the buffer at or after the end of the one before.
BodyWellFormed(s) ==
    \A i \in 1..(Len(s) - 1) :
        /\ s[i].more
        /\ s[i].hi - s[i].lo = chunk_size
        /\ s[i].hi <= s[i + 1].lo

\* C19: the response start is sent before any body message; the body
\* messages are in buffer order, all but the last with more_body true and
\* chunk_size bytes; a finished response has sent exactly one message with
\* more_body false, its last, which is empty when the buffer's length is a
\* multiple of chunk_size; in header-only mode the one body message is that
\* empty last one.
C19_StreamWellFormed ==
    \A p \in Slots :
        /\ sent[p] # <<>> => loc[p].status = 200
        /\ BodyWellFormed(sent[p])
        /\ (pc[p] \in {"background", "done"} /\ loc[p].status = 200) =>
              LET last == sent[p][Len(sent[p])]
              IN  /\ FinalSent(p)
                  /\ last.hi - last.lo < chunk_size
                  /\ bufs[loc[p].buf].n % chunk_size = 0 => last.hi = last.lo
                  /\ send_header_only(rsp[p].method) =>
                        (Len(sent[p]) = 1 /\ last.hi = last.lo)
        /\ pc[p] = "body" => ~FinalSent(p)
====
